---- MODULE Spec2Model ----
(***************************************************************************)
(* Model of adaptivefiltering's segmentation module                        *)
(* (src/adaptivefiltering/segmentation.py): the Segmentation value type,   *)
(* the free functions get_min_max_values, swap_coordinates and             *)
(* split_segmentation_classes, and the Map controller; of the              *)
(* InteractiveWidgetOutputProxy of src/adaptivefiltering/apps.py; and of   *)
(* the temporary workspace of src/afwizard/paths.py.                       *)
(*                                                                         *)
(* Python objects are modelled by value.  A Segmentation is the sequence   *)
(* of its features; a feature is a record of its properties (an ordered    *)
(* sequence of key/value entries, as a Python dict is ordered) and its     *)
(* geometry.  Coordinates are nested sequences exactly as the nested lists *)
(* of the GeoJSON document; the field "depth" of a geometry records how    *)
(* many list levels lie between "coordinates" and the numbers (3 for a     *)
(* Polygon, 4 for a MultiPolygon), so that two coordinate lists are only   *)
(* ever compared when they have the same shape.                            *)
(***************************************************************************)
EXTENDS Integers, Sequences, FiniteSets, TLC

VARIABLES
    S,       \* features of the Segmentation object the caller holds
    R,       \* what the last library call returned (or raised)
    fresh,   \* TRUE when S is the object the last call returned
    log,     \* one entry per library call: argument before/after, result
    mp,      \* the Map object (segmentation.py, class Map)
    mplog,   \* the last call of Map's constructor: arguments and outcome
    last,    \* the last method call on the Map: arguments, draw surface before
    titles,  \* the titles passed to load_overlay, in call order
    px,      \* an InteractiveWidgetOutputProxy and the form it reads (apps.py)
    ws       \* the process's working directory and afwizard.paths._tmp_dir

vars == <<S, R, fresh, log, mp, mplog, last, titles, px, ws>>

----------------------------------------------------------------------------
(* Bounds of the model *)

MaxFeatures == 2      \* features of an enumerated input Segmentation
MaxCalls == 2         \* library calls in one behaviour
Margin == 1           \* features and values beyond MaxCategories in the split inputs
MaxOverlays == 2      \* overlays loaded into one Map
MaxLayers == 2        \* layers added to one Map on top of its boundary layer
MaxCreated == 3       \* invocations of a proxy's creator
MaxDepth == 2         \* with-blocks of within_temporary_workspace open at once
MaxBlocks == 3        \* with-blocks entered in one behaviour

----------------------------------------------------------------------------
(* Values *)

\* A property value: hashable scalars carry a label, an unhashable value
\* (a list or a dict such as "style") is not usable as a dict key.
Scalar(n) == [hashable |-> TRUE, v |-> n]
Unhashable == [hashable |-> FALSE, v |-> 0]

Prop(k, val) == [k |-> k, v |-> val]

\* dict operations on an ordered sequence of entries
Keys(props) == [i \in 1..Len(props) |-> props[i].k]
HasKey(props, k) == \E i \in 1..Len(props) : props[i].k = k
GetItem(props, k) == props[CHOOSE i \in 1..Len(props) : props[i].k = k].v

\* A closed ring around seed s: minX = s, maxX = s + 2, minY = s + 1,
\* maxY = s + 3, so that X and Y differ in every point.
Ring(s) == << <<s, s + 1>>, <<s + 2, s + 3>>, <<s, s + 1>> >>

Polygon(rings) == [type |-> "Polygon", depth |-> 3, coordinates |-> rings]
MultiPolygon(polys) == [type |-> "MultiPolygon", depth |-> 4, coordinates |-> polys]

Feature(props, geom) == [properties |-> props, geometry |-> geom]

\* Geometries of the enumerated inputs: a simple Polygon, a Polygon with a
\* hole, a MultiPolygon of two polygons (one of them with a hole).
GeometryChoices ==
    << Polygon(<<Ring(0)>>),
       Polygon(<<Ring(4), Ring(5)>>),
       MultiPolygon(<< <<Ring(8)>>, <<Ring(2), Ring(3)>> >>) >>

\* Properties of the enumerated inputs: no class, or one of two classes.
ClassChoices ==
    << <<>>, <<Prop("class", Scalar(1))>>, <<Prop("class", Scalar(2))>> >>

\* The keywords merge_classes is called with: the default, and a key no
\* enumerated feature carries.
MergeKeywords == {"class", "zone"}

\* The data model's invariant: a Polygon is a list of rings, a MultiPolygon
\* a list of polygons.
WellFormedGeometry(g) ==
    \/ g.type = "Polygon" /\ g.depth = 3
    \/ g.type = "MultiPolygon" /\ g.depth = 4

WellFormed(feats) == \A i \in 1..Len(feats) : WellFormedGeometry(feats[i].geometry)

\* Equality of geometries and features that never compares lists of
\* different nesting.
SameGeometry(g, h) ==
    /\ g.type = h.type
    /\ g.depth = h.depth
    /\ g.coordinates = h.coordinates

SameFeature(f, g) ==
    /\ f.properties = g.properties
    /\ SameGeometry(f.geometry, g.geometry)

SameFeatures(a, b) ==
    /\ Len(a) = Len(b)
    /\ \A i \in 1..Len(a) : SameFeature(a[i], b[i])

----------------------------------------------------------------------------
(* Return values *)

NoResult == [kind |-> "none"]
Returned(feats) == [kind |-> "Segmentation", features |-> feats]
Raised(e) == [kind |-> "error", error |-> e]

----------------------------------------------------------------------------
(* Segmentation.merge_classes *)

\* A merge_classes that never finds a class it already added
ClassIndexNeverFound(added, val) == 0

\* Index of value val in the dict added_classes (a sequence of entries
\* [value, index]), 0 when it is not a key.
ClassIndex(added, val) ==
    IF \E j \in 1..Len(added) : added[j].value = val
    THEN added[CHOOSE j \in 1..Len(added) : added[j].value = val].index
    ELSE 0

\* The state of the loop of merge_classes: feats are the input's feature
\* objects (the loop writes through them), out lists for every feature of
\* new_segmentation the input feature object it IS (position in feats), and
\* added is the dict added_classes.
MergeStart(feats) == [feats |-> feats, out |-> <<>>, added |-> <<>>]

\* Promotion of the feature just appended to new_segmentation (lines 93-102)
Promote(g) ==
    IF g.type = "Polygon"
    THEN [type |-> "MultiPolygon", depth |-> g.depth + 1, coordinates |-> <<g.coordinates>>]
    ELSE g

\* A merge_classes that puts the polygons of a later feature in front of
\* the accumulated ones
AccumulateInFront(acc, g) ==
    IF g.type = "Polygon" THEN <<g.coordinates>> \o acc
    ELSE IF g.type = "MultiPolygon" THEN g.coordinates \o acc
    ELSE acc

\* The coordinates of the accumulator after a later feature of the class
\* was merged into it (lines 104-113)
Accumulate(acc, g) ==
    IF g.type = "Polygon" THEN Append(acc, g.coordinates)
    ELSE IF g.type = "MultiPolygon" THEN acc \o g.coordinates
    ELSE acc

\* One iteration of the loop over self["features"] (lines 85-113)
MergeStep(st, i, keyword) ==
    LET f == st.feats[i] IN
    IF ~HasKey(f.properties, keyword) THEN st
    ELSE
      LET val == GetItem(f.properties, keyword)
          ci == ClassIndex(st.added, val)
      IN  IF ci = 0
          THEN [feats |-> [st.feats EXCEPT ![i].geometry = Promote(f.geometry)],
                out |-> Append(st.out, i),
                added |-> Append(st.added, [value |-> val, index |-> Len(st.out) + 1])]
          ELSE LET t == st.out[ci] IN
               [st EXCEPT !.feats[t].geometry.coordinates =
                              Accumulate(st.feats[t].geometry.coordinates, f.geometry)]

RECURSIVE MergeLoop(_, _, _)
MergeLoop(st, i, keyword) ==
    IF i > Len(st.feats) THEN st
    ELSE MergeLoop(MergeStep(st, i, keyword), i + 1, keyword)

\* The features of the returned Segmentation are the input's own feature
\* objects, read here when the call returns.
MergeResult(st) == [j \in 1..Len(st.out) |-> st.feats[st.out[j]]]

----------------------------------------------------------------------------
(* swap_coordinates *)

\* Line 155: the INPUT feature's coordinates are wrapped in a new list.
Wrap(g) == [g EXCEPT !.depth = g.depth + 1, !.coordinates = <<g.coordinates>>]

\* Lines 157-163 raise IndexError when an item at the third list level has
\* fewer than two elements.
SwapRaises(c) ==
    \E i \in 1..Len(c) : \E j \in 1..Len(c[i]) : \E k \in 1..Len(c[i][j]) :
        Len(c[i][j][k]) < 2

\* A swap_coordinates that keeps only the first ring of every polygon
PolygonListWithoutHoles(c) ==
    [i \in 1..Len(c) |->
        [j \in 1..1 |->
            [k \in 1..Len(c[i][j]) |-> <<c[i][j][k][2], c[i][j][k][1]>>]]]

\* Lines 157-163: polygon_list
PolygonList(c) ==
    [i \in 1..Len(c) |->
        [j \in 1..Len(c[i]) |->
            [k \in 1..Len(c[i][j]) |-> <<c[i][j][k][2], c[i][j][k][1]>>]]]

\* Lines 165-167: the coordinates stored in the copy of the feature
NewGeometry(old, wrapped) ==
    IF wrapped.type = "Polygon"
    THEN [type |-> old.type, depth |-> wrapped.depth - 1,
          coordinates |-> PolygonList(wrapped.coordinates)[1]]
    ELSE [type |-> old.type, depth |-> wrapped.depth,
          coordinates |-> PolygonList(wrapped.coordinates)]

\* The loop of swap_coordinates: feats are the input's feature objects, new
\* the deep copy taken on entry; raised tells whether an exception left the
\* loop.
SwapStart(feats) == [feats |-> feats, new |-> feats, raised |-> FALSE]

SwapStep(st, i) ==
    LET g == st.feats[i].geometry
        w == IF g.type = "Polygon" THEN Wrap(g) ELSE g
        written == [st.feats EXCEPT ![i].geometry = w]
    IN  IF SwapRaises(w.coordinates)
        THEN [st EXCEPT !.feats = written, !.raised = TRUE]
        ELSE [st EXCEPT !.feats = written,
                        !.new[i].geometry = NewGeometry(st.new[i].geometry, w)]

RECURSIVE SwapLoop(_, _)
SwapLoop(st, i) ==
    IF i > Len(st.feats) \/ st.raised THEN st
    ELSE SwapLoop(SwapStep(st, i), i + 1)

----------------------------------------------------------------------------
(* get_min_max_values *)

Min(xs) == CHOOSE m \in xs : \A x \in xs : m <= x
Max(xs) == CHOOSE m \in xs : \A x \in xs : m >= x

\* min or max of a set of numbers, by the name of the function
Extreme(fn, xs) == IF fn = "min" THEN Min(xs) ELSE Max(xs)

\* A numpy scalar, and a numpy array of more than one element
Num(x) == [scalar |-> TRUE, v |-> x]
Arr(a) == [scalar |-> FALSE, v |-> a]

\* np.min(coord_array, axis=0)[idx] and np.max(coord_array, axis=0)[idx]
\* (lines 130-135), idx counted from 1.  An item of a Polygon's coordinates
\* is a ring, an array of shape (n, 2): the reduction over axis 0 is a pair
\* and its element idx a scalar.  An item of a MultiPolygon's coordinates is
\* a polygon, an array of shape (rings, n, 2) (the rings of the modelled
\* inputs have equal length): the reduction over axis 0 runs over the rings,
\* and its element idx is the pair reduced at point idx of the rings.
AxisReduce(item, ndim, idx, fn) ==
    IF ndim = 2
    THEN Num(Extreme(fn, {item[k][idx] : k \in 1..Len(item)}))
    ELSE Arr(<<Extreme(fn, {item[r][idx][1] : r \in 1..Len(item)}),
               Extreme(fn, {item[r][idx][2] : r \in 1..Len(item)})>>)

\* Indexing the reduction with [1] (Python) raises IndexError when it has a
\* single row.
AxisRaises(item, ndim) == ndim = 3 /\ \E r \in 1..Len(item) : Len(item[r]) < 2

\* The items the two nested loops of lines 128-129 visit, in order, each
\* with the number of dimensions of its array
RECURSIVE CoordArrays(_, _)
CoordArrays(feats, i) ==
    IF i > Len(feats) THEN <<>>
    ELSE LET g == feats[i].geometry IN
         [k \in 1..Len(g.coordinates) |-> [item |-> g.coordinates[k], ndim |-> g.depth - 1]]
         \o CoordArrays(feats, i + 1)

\* Python's min(value) / max(value) of lines 137-141 on a list of numpy
\* values: an empty list raises ValueError, a single element is returned as
\* it is, and comparing an array of two elements raises ValueError (its
\* truth value is ambiguous).
Reduce(values, fn) ==
    IF Len(values) = 0 THEN Raised("ValueError")
    ELSE IF Len(values) = 1 THEN values[1]
    ELSE IF \A k \in 1..Len(values) : values[k].scalar
    THEN Num(Extreme(fn, {values[k].v : k \in 1..Len(values)}))
    ELSE Raised("ValueError")

IsRaised(x) == "kind" \in DOMAIN x

get_min_max_values(feats) ==
    LET arrays == CoordArrays(feats, 1)
        n == Len(arrays)
    IN  IF \E k \in 1..n : AxisRaises(arrays[k].item, arrays[k].ndim)
        THEN Raised("IndexError")
        ELSE
          LET minX == Reduce([k \in 1..n |-> AxisReduce(arrays[k].item, arrays[k].ndim, 1, "min")], "min")
              minY == Reduce([k \in 1..n |-> AxisReduce(arrays[k].item, arrays[k].ndim, 2, "min")], "min")
              maxX == Reduce([k \in 1..n |-> AxisReduce(arrays[k].item, arrays[k].ndim, 1, "max")], "max")
              maxY == Reduce([k \in 1..n |-> AxisReduce(arrays[k].item, arrays[k].ndim, 2, "max")], "max")
          IN  IF IsRaised(minX) THEN minX
              ELSE [kind |-> "dict", minX |-> minX, maxX |-> maxX, minY |-> minY, maxY |-> maxY]

----------------------------------------------------------------------------
(* split_segmentation_classes *)

\* Line 216: a key with more than this many values is removed
MaxCategories == 20

\* _all_equal (lines 180-182): groupby yields one group per run of equal
\* consecutive items; the result is true when there is no second group,
\* which includes the empty list.
AllEqual(keys_list) ==
    \A i \in 1..(Len(keys_list) - 1) : keys_list[i] = keys_list[i + 1]

RECURSIVE Flatten(_)
Flatten(lists) == IF lists = <<>> THEN <<>> ELSE Head(lists) \o Flatten(Tail(lists))

Occurrences(seq, x) == Cardinality({i \in 1..Len(seq) : seq[i] = x})

\* The keys of Counter(flat_list), in insertion order
RECURSIVE CounterKeys(_, _)
CounterKeys(flat, i) ==
    IF i > Len(flat) THEN <<>>
    ELSE (IF \E j \in 1..(i - 1) : flat[j] = flat[i] THEN <<>> ELSE <<flat[i]>>)
         \o CounterKeys(flat, i + 1)

\* Lines 195-199: the keys counted once per feature
KeysByCount(keys_list) ==
    LET flat == Flatten(keys_list)
        InAll(key) == Occurrences(flat, key) = Len(keys_list)
    IN  SelectSeq(CounterKeys(flat, 1), InAll)

\* split_dict is an ordered sequence of entries [key, groups]; groups, the
\* inner dict, an ordered sequence of entries [value, features].
KeyPos(dict, key) ==
    IF \E j \in 1..Len(dict) : dict[j].key = key
    THEN CHOOSE j \in 1..Len(dict) : dict[j].key = key
    ELSE 0

ValuePos(groups, val) ==
    IF \E j \in 1..Len(groups) : groups[j].value = val
    THEN CHOOSE j \in 1..Len(groups) : groups[j].value = val
    ELSE 0

\* Lines 208-210 on the inner dict: setdefault(value, Segmentation([feature]))
\* stores a Segmentation that already holds the feature when the value is
\* new, and the feature is then appended to the Segmentation found.
AddToGroups(groups, val, f) ==
    LET found == ValuePos(groups, val)
        stored == IF found = 0
                  THEN Append(groups, [value |-> val, features |-> <<f>>])
                  ELSE groups
        at == IF found = 0 THEN Len(stored) ELSE found
    IN  [stored EXCEPT ![at].features = Append(stored[at].features, f)]

\* Lines 205-210 for one feature and one key.  val.hashable is
\* isinstance(value, collections.Hashable), the alias of
\* collections.abc.Hashable that Python provides up to version 3.9.
AddToDict(dict, key, f) ==
    LET val == GetItem(f.properties, key) IN
    IF ~val.hashable THEN dict
    ELSE LET found == KeyPos(dict, key)
             stored == IF found = 0
                       THEN Append(dict, [key |-> key, groups |-> <<>>])
                       ELSE dict
             at == IF found = 0 THEN Len(stored) ELSE found
         IN  [stored EXCEPT ![at].groups = AddToGroups(stored[at].groups, val, f)]

\* Lines 203-210: the loop over the features, and for each over the keys
RECURSIVE FillDict(_, _, _, _, _)
FillDict(dict, feats, property_keys, i, j) ==
    IF i > Len(feats) THEN dict
    ELSE IF j > Len(property_keys) THEN FillDict(dict, feats, property_keys, i + 1, 1)
    ELSE LET next == AddToDict(dict, property_keys[j], feats[i])
         IN  \* setdefault only adds entries; the test has the dict of this
             \* iteration evaluated before the next iteration starts
             IF Len(next) >= Len(dict)
             THEN FillDict(next, feats, property_keys, i, j + 1)
             ELSE dict

\* A limit that already removes a key with MaxCategories values
TooManyEntriesFromLimit(groups) == Len(groups) >= MaxCategories

\* Line 216
TooManyEntries(groups) == Len(groups) > MaxCategories

\* Lines 214-220
KeepSmall(dict) ==
    LET Small(entry) == ~TooManyEntries(entry.groups) IN SelectSeq(dict, Small)

\* Line 231: sorted(split_dict[key].items()); the values are distinct, so
\* the order is that of the values
RECURSIVE Sorted(_)
Sorted(groups) ==
    IF groups = <<>> THEN <<>>
    ELSE LET m == CHOOSE j \in 1..Len(groups) :
                    \A l \in 1..Len(groups) : groups[j].value.v <= groups[l].value.v
             rest == [l \in 1..(Len(groups) - 1) |->
                        IF l < m THEN groups[l] ELSE groups[l + 1]]
         IN  <<groups[m]>> \o Sorted(rest)

split_segmentation_classes(feats) ==
    LET keys_list == [i \in 1..Len(feats) |-> Keys(feats[i].properties)] IN
    IF AllEqual(keys_list) /\ keys_list = <<>> THEN Raised("IndexError")
    ELSE
      LET property_keys == IF AllEqual(keys_list) THEN keys_list[1]
                           ELSE KeysByCount(keys_list)
          split_dict == KeepSmall(FillDict(<<>>, feats, property_keys, 1, 1))
      IN  IF Len(split_dict) = 0 THEN Raised("AdaptiveFilteringError")
          ELSE [kind |-> "split_dict",
                dict |-> [j \in 1..Len(split_dict) |->
                            [key |-> split_dict[j].key,
                             groups |-> Sorted(split_dict[j].groups)]]]

----------------------------------------------------------------------------
(* The caller of the geometry functions *)

\* The Map object before its constructor ran
NoMap == [state |-> "Uninitialized"]

\* No constructor of Map was called
NoCall == [called |-> FALSE]

\* No InteractiveWidgetOutputProxy was constructed
NoProxy == [state |-> "Unconstructed"]

\* A directory: one of the user's, or the n-th tempfile.TemporaryDirectory
UserDir(n) == [kind |-> "user", id |-> n]
TempDir(n) == [kind |-> "temporary", id |-> n]

\* The process before any call into afwizard.paths: _tmp_dir is None
\* (tmp_dir = 0), no with-block is open
ProcessStart ==
    [cwd |-> UserDir(1), tmp_dir |-> 0, created |-> 0, blocks |-> <<>>,
     entered |-> 0, left |-> NoCall]

Entry(op, keyword, before, after, ret) ==
    [op |-> op, keyword |-> keyword, onResult |-> fresh,
     before |-> before, after |-> after, ret |-> ret]

Init ==
    /\ \E n \in 0..MaxFeatures :
         \E cs \in [1..n -> DOMAIN ClassChoices], gs \in [1..n -> DOMAIN GeometryChoices] :
            S = [i \in 1..n |-> Feature(ClassChoices[cs[i]], GeometryChoices[gs[i]])]
    /\ R = NoResult
    /\ fresh = FALSE
    /\ log = <<>>
    /\ mp = NoMap
    /\ mplog = NoCall
    /\ last = NoCall
    /\ titles = <<>>
    /\ px = NoProxy
    /\ ws = ProcessStart

\* new = S.merge_classes(keyword).  The caller passes a Segmentation that
\* satisfies the data model (WellFormed) and whose values under the keyword
\* are hashable.
MergeClasses(keyword) ==
    /\ Len(log) < MaxCalls
    /\ WellFormed(S)
    /\ LET st == MergeLoop(MergeStart(S), 1, keyword)
           ret == Returned(MergeResult(st))
       IN  /\ S' = st.feats
           /\ R' = ret
           /\ log' = Append(log, Entry("merge_classes", keyword, S, st.feats, ret))
    /\ fresh' = FALSE
    /\ UNCHANGED <<mp, mplog, last, titles, px, ws>>

\* new = swap_coordinates(S), for any Segmentation the caller holds, also
\* one an earlier call of swap_coordinates has written to
SwapCoordinates ==
    /\ Len(log) < MaxCalls
    /\ LET st == SwapLoop(SwapStart(S), 1)
           ret == IF st.raised THEN Raised("IndexError") ELSE Returned(st.new)
       IN  /\ S' = st.feats
           /\ R' = ret
           /\ log' = Append(log, Entry("swap_coordinates", "", S, st.feats, ret))
    /\ fresh' = FALSE
    /\ UNCHANGED <<mp, mplog, last, titles, px, ws>>

\* edges = get_min_max_values(S), for a Segmentation that satisfies the data
\* model
GetMinMaxValues ==
    /\ Len(log) < MaxCalls
    /\ WellFormed(S)
    /\ LET ret == get_min_max_values(S)
       IN  /\ R' = ret
           /\ log' = Append(log, Entry("get_min_max_values", "", S, S, ret))
    /\ fresh' = FALSE
    /\ UNCHANGED <<S, mp, mplog, last, titles, px, ws>>

\* S = new: the caller goes on with the Segmentation the last call returned
Use ==
    /\ R.kind = "Segmentation"
    /\ ~fresh
    /\ WellFormed(R.features)
    /\ S' = R.features
    /\ fresh' = TRUE
    /\ UNCHANGED <<R, log, mp, mplog, last, titles, px, ws>>

Next ==
    \/ \E keyword \in MergeKeywords : MergeClasses(keyword)
    \/ SwapCoordinates
    \/ GetMinMaxValues
    \/ Use

Spec == Init /\ [][Next]_vars

----------------------------------------------------------------------------
(* The caller of split_segmentation_classes *)

\* Properties of the enumerated inputs of the split: no property, a class,
\* a class and a zone in either order, a class that is a list.
PropertyChoices ==
    << <<>>,
       <<Prop("class", Scalar(1))>>,
       <<Prop("class", Scalar(2))>>,
       <<Prop("class", Scalar(1)), Prop("zone", Scalar(1))>>,
       <<Prop("zone", Scalar(1)), Prop("class", Scalar(1))>>,
       <<Prop("class", Scalar(2)), Prop("zone", Scalar(2))>>,
       <<Prop("class", Unhashable)>> >>

\* n features whose "id" takes n values and whose "class" cycles, in
\* descending order, through m values; every feature has its own ring.
Numbered(n, m) ==
    [i \in 1..n |->
        Feature(<<Prop("class", Scalar(m - ((i - 1) % m))), Prop("id", Scalar(i))>>,
                Polygon(<<Ring(i)>>))]

InitSplit ==
    /\ \/ \E n \in 0..MaxFeatures : \E ps \in [1..n -> DOMAIN PropertyChoices] :
            S = [i \in 1..n |-> Feature(PropertyChoices[ps[i]], Polygon(<<Ring(i)>>))]
       \/ \E n \in 1..(MaxCategories + Margin), m \in 1..(MaxCategories + Margin) :
            S = Numbered(n, m)
    /\ R = NoResult
    /\ fresh = FALSE
    /\ log = <<>>
    /\ mp = NoMap
    /\ mplog = NoCall
    /\ last = NoCall
    /\ titles = <<>>
    /\ px = NoProxy
    /\ ws = ProcessStart

\* split_dict = split_segmentation_classes(S)
SplitSegmentationClasses ==
    /\ Len(log) < MaxCalls
    /\ LET ret == split_segmentation_classes(S)
       IN  /\ R' = ret
           /\ log' = Append(log, Entry("split_segmentation_classes", "", S, S, ret))
    /\ fresh' = FALSE
    /\ UNCHANGED <<S, mp, mplog, last, titles, px, ws>>

NextSplit == SplitSegmentationClasses

SpecSplit == InitSplit /\ [][NextSplit]_vars

----------------------------------------------------------------------------
(* The points of a Segmentation *)

\* Every coordinate pair of every ring of every feature
RingPoints(ring) == {ring[k] : k \in 1..Len(ring)}

PolygonPoints(rings) == UNION {RingPoints(rings[r]) : r \in 1..Len(rings)}

PointsOf(g) ==
    IF g.type = "Polygon"
    THEN PolygonPoints(g.coordinates)
    ELSE UNION {PolygonPoints(g.coordinates[p]) : p \in 1..Len(g.coordinates)}

AllPoints(feats) == UNION {PointsOf(feats[i].geometry) : i \in 1..Len(feats)}

----------------------------------------------------------------------------
(* class Map *)

\* Arguments of the constructor: None, a DataSet (of which the model keeps
\* the boundary ring the hexbin filter and the reprojection give), or a
\* Segmentation
None == [type |-> "NoneType"]
DataSetObject(ring) == [type |-> "DataSet", boundary |-> ring]
SegmentationObject(feats) == [type |-> "Segmentation", features |-> feats]

\* bool(x): None is false; a DataSet is an object, a Segmentation a dict
\* with the keys "type" and "features", so both are true.
Truthy(x) == x.type # "NoneType"

RaisedWith(e, msg) == [kind |-> "error", error |-> e, message |-> msg]
Passed == [kind |-> "none"]

\* x is []: identity with a list that the expression has just created.  No
\* object that existed before is that list, whatever it holds.
IsTheNewList(x) == FALSE

\* Lines 262-295, the checks of the constructor in their order.  getitem
\* tells whether a DataSet can be subscripted (its class is not part of
\* this module); None cannot.
Validate(dataset, segmentation, getitem) ==
    IF Truthy(dataset) /\ Truthy(segmentation)
    THEN RaisedWith("AdaptiveFilteringError", "both")
    ELSE IF /\ dataset.type = "NoneType"
            /\ \/ segmentation.type = "NoneType"
               \/ segmentation.type = "DataSet" /\ ~getitem
    THEN RaisedWith("TypeError", "not subscriptable")
    ELSE IF /\ dataset.type = "NoneType"
            /\ segmentation.type = "Segmentation"
            /\ IsTheNewList(segmentation.features)
    THEN RaisedWith("AdaptiveFilteringError", "empty")
    ELSE IF dataset.type = "NoneType" /\ segmentation.type = "NoneType"
    THEN RaisedWith("AdaptiveFilteringError", "none")
    ELSE IF Truthy(dataset)
    THEN (IF dataset.type = "Segmentation"
          THEN RaisedWith("AdaptiveFilteringError", "segmentation as dataset")
          ELSE IF dataset.type # "DataSet"
          THEN RaisedWith("AdaptiveFilteringError", "not a DataSet")
          ELSE Passed)
    ELSE IF Truthy(segmentation)
    THEN (IF segmentation.type = "DataSet"
          THEN RaisedWith("AdaptiveFilteringError", "dataset as segmentation")
          ELSE IF segmentation.type # "Segmentation"
          THEN RaisedWith("AdaptiveFilteringError", "not a Segmentation")
          ELSE Passed)
    ELSE Passed

\* utils.merge_segmentation_features: one feature whose outline covers all
\* features; the model keeps its extent, a closed rectangular ring.
MergeSegmentationFeatures(feats) ==
    LET pts == AllPoints(feats)
        x0 == Min({p[1] : p \in pts})
        x1 == Max({p[1] : p \in pts})
        y0 == Min({p[2] : p \in pts})
        y1 == Max({p[2] : p \in pts})
    IN  <<Feature(<<>>, Polygon(<< << <<x0, y0>>, <<x1, y0>>, <<x1, y1>>, <<x0, y1>>, <<x0, y0>> >> >>))>>

BoundaryStyle == Unhashable

\* Lines 501-518: the boundary Segmentation
BoundaryFeature(hexbin_coord) ==
    Feature(<<Prop("style", BoundaryStyle)>>, Polygon(hexbin_coord))

\* load_hexbin_boundary for arguments that passed the checks
load_hexbin_boundary(dataset, segmentation) ==
    IF Truthy(dataset)
    THEN SwapLoop(SwapStart(<<BoundaryFeature(<<dataset.boundary>>)>>), 1).new
    ELSE <<BoundaryFeature(MergeSegmentationFeatures(segmentation.features)[1].geometry.coordinates)>>

\* The Map after lines 297-327
NewMap(dataset, boundary_segmentation) ==
    [state |-> "Ready",
     dataset |-> dataset,
     boundary_edges |-> get_min_max_values(boundary_segmentation),
     layers |-> <<[kind |-> "GeoJSON", name |-> "Boundary", data |-> boundary_segmentation]>>,
     draw_data |-> <<>>,
     overlay_list |-> <<>>]

\* Lines 340-348: the image layer
ImageOverlay(edges, title) ==
    [kind |-> "ImageOverlay", name |-> title,
     bounds |-> << <<edges.maxY.v, edges.maxX.v>>, <<edges.minY.v, edges.minX.v>> >>]

\* feature["properties"][k] = val
SetItem(props, k, val) ==
    IF HasKey(props, k)
    THEN [i \in 1..Len(props) |-> IF props[i].k = k THEN Prop(k, val) ELSE props[i]]
    ELSE Append(props, Prop(k, val))

DefaultStyle == [hashable |-> FALSE, v |-> 1]

\* Lines 405-427 on the copy of one feature
Styled(f) ==
    LET props == IF HasKey(f.properties, "style") THEN f.properties
                 ELSE SetItem(f.properties, "style", DefaultStyle)
    IN  [f EXCEPT !.properties = SetItem(props, "merge_str", Scalar(1))]

\* Lines 452-457: the features whose geometry is not drawn yet
RECURSIVE NewPolygons(_, _, _)
NewPolygons(feats, current_data, i) ==
    IF i > Len(feats) THEN <<>>
    ELSE (IF \E d \in 1..Len(current_data) :
                SameGeometry(feats[i].geometry, current_data[d].geometry)
          THEN <<>> ELSE <<feats[i]>>)
         \o NewPolygons(feats, current_data, i + 1)

\* Features of the Segmentations given to the Map: two features of the
\* same geometry and different properties, and a MultiPolygon
MapFeatures ==
    << Feature(<<Prop("class", Scalar(1))>>, Polygon(<<Ring(0)>>)),
       Feature(<<Prop("style", Unhashable)>>, Polygon(<<Ring(0)>>)),
       Feature(<<>>, MultiPolygon(<< <<Ring(8)>>, <<Ring(2), Ring(3)>> >>)) >>

\* The Segmentations given to the Map: none or one feature, two features of
\* different geometry, the same feature twice
MapSegmentations ==
    << <<>>,
       <<MapFeatures[1]>>,
       <<MapFeatures[2], MapFeatures[3]>>,
       <<MapFeatures[3], MapFeatures[3]>> >>

\* Boundary rings of the DataSets given to the Map
BoundaryRings == <<Ring(0), Ring(4)>>

\* What the boundary computation raises for a Segmentation without
\* features (there is no first feature to take the outline from)
NoOutlineErrors == {"IndexError", "KeyError"}

Overlays == {"hillshade", "slope"}

InitMap ==
    /\ S = <<>>
    /\ R = NoResult
    /\ fresh = FALSE
    /\ log = <<>>
    /\ mp = NoMap
    /\ mplog = NoCall
    /\ last = NoCall
    /\ titles = <<>>
    /\ px = NoProxy
    /\ ws = ProcessStart

\* Map(dataset=dataset, segmentation=segmentation)
MapInit(dataset, segmentation, getitem, outline_error) ==
    /\ mp.state = "Uninitialized"
    /\ LET checked == Validate(dataset, segmentation, getitem)
           raised == IF checked.kind = "error" THEN checked
                     ELSE IF ~Truthy(dataset) /\ Len(segmentation.features) = 0
                     THEN RaisedWith(outline_error, "boundary computation")
                     ELSE Passed
           new == IF raised.kind = "error" THEN mp
                  ELSE NewMap(dataset, load_hexbin_boundary(dataset, segmentation))
       IN  /\ mp' = new
           /\ mplog' = [called |-> TRUE, dataset |-> dataset,
                        segmentation |-> segmentation, raised |-> raised,
                        edges |-> IF raised.kind = "error" THEN None
                                  ELSE new.boundary_edges]
    /\ UNCHANGED <<S, R, fresh, log, last, titles, px, ws>>

\* What the history keeps of the call before the last one
Brief(call) ==
    IF call.called
    THEN [op |-> call.op, feats |-> call.feats, override |-> call.override]
    ELSE [op |-> "", feats |-> <<>>, override |-> FALSE]

\* A method call on the Map as the history keeps it: its arguments, its
\* argument after the call, the Map before the call, the call before it
Call(op, title, feats, after, override) ==
    [called |-> TRUE, op |-> op, title |-> title, feats |-> feats,
     after |-> after, override |-> override, before |-> mp, prev |-> Brief(last)]

\* A load_overlay that recomputes the edges from what is drawn
LoadOverlayOnDrawnExtent(title) ==
    /\ mp.state = "Ready"
    /\ Len(titles) < MaxOverlays
    /\ Len(mp.layers) < 1 + MaxLayers
    /\ LET edges == IF Len(mp.draw_data) = 0 THEN mp.boundary_edges
                    ELSE get_min_max_values(<<MergeSegmentationFeatures(mp.draw_data)[1]>>)
       IN  mp' = [mp EXCEPT !.boundary_edges = edges,
                            !.layers = Append(@, ImageOverlay(edges, title)),
                            !.overlay_list = Append(@, title)]
    /\ last' = Call("load_overlay", title, <<>>, <<>>, FALSE)
    /\ titles' = Append(titles, title)
    /\ R' = NoResult
    /\ UNCHANGED <<S, fresh, log, mplog, px, ws>>

\* A load_overlay that skips an overlay it has already loaded
LoadOverlayOnce(title) ==
    /\ mp.state = "Ready"
    /\ Len(titles) < MaxOverlays
    /\ Len(mp.layers) < 1 + MaxLayers
    /\ mp' = IF \E i \in 1..Len(mp.overlay_list) : mp.overlay_list[i] = title
             THEN mp
             ELSE [mp EXCEPT !.layers = Append(@, ImageOverlay(mp.boundary_edges, title)),
                             !.overlay_list = Append(@, title)]
    /\ last' = Call("load_overlay", title, <<>>, <<>>, FALSE)
    /\ titles' = Append(titles, title)
    /\ R' = NoResult
    /\ UNCHANGED <<S, fresh, log, mplog, px, ws>>

\* map.load_overlay(vis, title)
LoadOverlay(title) ==
    /\ mp.state = "Ready"
    /\ Len(titles) < MaxOverlays
    /\ Len(mp.layers) < 1 + MaxLayers
    /\ mp' = [mp EXCEPT !.layers = Append(@, ImageOverlay(mp.boundary_edges, title)),
                        !.overlay_list = Append(@, title)]
    /\ last' = Call("load_overlay", title, <<>>, <<>>, FALSE)
    /\ titles' = Append(titles, title)
    /\ R' = NoResult
    /\ UNCHANGED <<S, fresh, log, mplog, px, ws>>

\* A load_geojson that styles the features of its argument in place
SameObject(feats) == [aliased |-> TRUE, features |-> feats]

\* Line 403, copy.deepcopy: a new object with equal features, so that what
\* is written to it does not reach the argument
DeepCopy(feats) == [aliased |-> FALSE, features |-> feats]

\* map.load_geojson(segmentation, name)
LoadGeojson(feats, name) ==
    /\ mp.state = "Ready"
    /\ Len(mp.layers) + Len(feats) <= 1 + MaxLayers
    /\ LET segmentation == DeepCopy(feats)
           styled == [i \in 1..Len(feats) |-> Styled(segmentation.features[i])]
           after == IF segmentation.aliased THEN styled ELSE feats
       IN  /\ mp' = [mp EXCEPT !.layers =
                        @ \o [i \in 1..Len(feats) |->
                                [kind |-> "GeoJSON", name |-> name, data |-> <<styled[i]>>]]]
           /\ last' = Call("load_geojson", name, feats, after, FALSE)
    /\ R' = NoResult
    /\ UNCHANGED <<S, fresh, log, mplog, titles, px, ws>>

\* A load_segmentation that adds to the drawn features also when told to
\* override
DrawDataNeverReplaced(current_data, feats, override) ==
    current_data \o NewPolygons(feats, current_data, 1)

\* Lines 439-460: self.draw_control.data after the call
DrawData(current_data, feats, override) ==
    IF override THEN feats
    ELSE current_data \o NewPolygons(feats, current_data, 1)

\* map.load_segmentation(segmentation, override)
LoadSegmentation(feats, override) ==
    /\ mp.state = "Ready"
    /\ mp' = [mp EXCEPT !.draw_data = DrawData(@, feats, override)]
    /\ last' = Call("load_segmentation", "", feats, feats, override)
    /\ R' = NoResult
    /\ UNCHANGED <<S, fresh, log, mplog, titles, px, ws>>

\* A return_segmentation that hands the drawn features out and clears the
\* draw surface
ReturnSegmentationClearing ==
    /\ mp.state = "Ready"
    /\ R' = Returned(mp.draw_data)
    /\ mp' = [mp EXCEPT !.draw_data = <<>>]
    /\ last' = Call("return_segmentation", "", <<>>, <<>>, FALSE)
    /\ UNCHANGED <<S, fresh, log, mplog, titles, px, ws>>

\* segmentation = map.return_segmentation()
ReturnSegmentation ==
    /\ mp.state = "Ready"
    /\ R' = Returned(mp.draw_data)
    /\ last' = Call("return_segmentation", "", <<>>, <<>>, FALSE)
    /\ UNCHANGED <<S, fresh, log, mp, mplog, titles, px, ws>>

NextMap ==
    \/ \E d \in {None} \cup {DataSetObject(BoundaryRings[b]) : b \in DOMAIN BoundaryRings}
                     \cup {SegmentationObject(MapSegmentations[2])} :
         \E s \in {None, DataSetObject(BoundaryRings[1])}
                    \cup {SegmentationObject(MapSegmentations[i]) : i \in DOMAIN MapSegmentations} :
         \E getitem \in BOOLEAN, outline_error \in NoOutlineErrors :
            MapInit(d, s, getitem, outline_error)
    \/ \E title \in Overlays : LoadOverlay(title)
    \/ \E i \in DOMAIN MapSegmentations : LoadGeojson(MapSegmentations[i], "segmentation")
    \/ \E i \in DOMAIN MapSegmentations, override \in BOOLEAN :
         LoadSegmentation(MapSegmentations[i], override)
    \/ ReturnSegmentation

SpecMap == InitMap /\ [][NextMap]_vars

----------------------------------------------------------------------------
(* class InteractiveWidgetOutputProxy (apps.py) *)

\* The creator of pipeline_tuning is lambda: pipeline.copy(**form.data): it
\* reads the form and makes a new object on every invocation.  An object is
\* known by the invocation that made it (id) and the form data it was made
\* from; self._obj = None is the object with none = TRUE.
NoObject == [none |-> TRUE, id |-> 0, data |-> 0]
Created(id, data) == [none |-> FALSE, id |-> id, data |-> data]

\* What the user can enter into the form
FormData == {1, 2}

\* getattr(self._obj, attr): the attribute of the wrapped object, an
\* AttributeError when the wrapped object is None
Forward(obj) ==
    IF obj.none THEN Raised("AttributeError") ELSE [kind |-> "value", data |-> obj.data]

\* A call on the proxy as the history keeps it
ProxyCall(op, result) ==
    [called |-> TRUE, op |-> op, result |-> result,
     finalized |-> px.finalized, made |-> px.made, obj |-> px.obj, form |-> px.form]

\* proxy = InteractiveWidgetOutputProxy(creator), lines 27-48.  ok tells
\* whether the creator returns or raises; the constructor swallows the
\* exception.
ProxyInit(data, ok) ==
    /\ px.state = "Unconstructed"
    /\ px' = [state |-> "Constructed",
              form |-> data,
              made |-> 1,
              obj |-> IF ok THEN Created(1, data) ELSE NoObject,
              finalized |-> FALSE,
              finalizations |-> 0,
              first |-> NoObject,
              made_at_first |-> 0,
              last |-> NoCall]
    /\ UNCHANGED <<S, R, fresh, log, mp, mplog, last, titles, ws>>

\* The user changes the form the creator reads
ChangeForm(data) ==
    /\ px.state = "Constructed"
    /\ px.form # data
    /\ px' = [px EXCEPT !.form = data]
    /\ UNCHANGED <<S, R, fresh, log, mp, mplog, last, titles, ws>>

\* proxy._finalize(), lines 50-57: the creator is invoked, the object
\* replaced and the flag set, whatever the flag was.  When the creator raises
\* (~ok) neither assignment happens.
Finalize(ok) ==
    /\ px.state = "Constructed"
    /\ px.made < MaxCreated
    /\ px' = IF ok
             THEN [px EXCEPT !.made = @ + 1,
                             !.obj = Created(px.made + 1, px.form),
                             !.finalized = TRUE,
                             !.finalizations = @ + 1,
                             !.first = IF px.finalizations = 0
                                       THEN Created(px.made + 1, px.form) ELSE @,
                             !.made_at_first = IF px.finalizations = 0
                                               THEN px.made + 1 ELSE @,
                             !.last = ProxyCall("_finalize", NoResult)]
             ELSE [px EXCEPT !.made = @ + 1,
                             !.last = ProxyCall("_finalize", Raised("Exception"))]
    /\ UNCHANGED <<S, R, fresh, log, mp, mplog, last, titles, ws>>

\* proxy.attr, lines 59-65: while not finalized the creator is invoked and
\* the object replaced; then the access is forwarded.  When the creator
\* raises (~ok) the exception leaves __getattr__ before line 65.
GetAttr(ok) ==
    /\ px.state = "Constructed"
    /\ px.finalized \/ px.made < MaxCreated
    /\ px' = IF px.finalized
             THEN [px EXCEPT !.last = ProxyCall("__getattr__", Forward(px.obj))]
             ELSE IF ok
             THEN [px EXCEPT !.made = @ + 1,
                             !.obj = Created(px.made + 1, px.form),
                             !.last = ProxyCall("__getattr__",
                                                Forward(Created(px.made + 1, px.form)))]
             ELSE [px EXCEPT !.made = @ + 1,
                             !.last = ProxyCall("__getattr__", Raised("Exception"))]
    /\ UNCHANGED <<S, R, fresh, log, mp, mplog, last, titles, ws>>

InitProxy ==
    /\ S = <<>>
    /\ R = NoResult
    /\ fresh = FALSE
    /\ log = <<>>
    /\ mp = NoMap
    /\ mplog = NoCall
    /\ last = NoCall
    /\ titles = <<>>
    /\ px = NoProxy
    /\ ws = ProcessStart

NextProxy ==
    \/ \E data \in FormData, ok \in BOOLEAN : ProxyInit(data, ok)
    \/ \E data \in FormData : ChangeForm(data)
    \/ \E ok \in BOOLEAN : Finalize(ok)
    \/ \E ok \in BOOLEAN : GetAttr(ok)

SpecProxy == InitProxy /\ [][NextProxy]_vars

----------------------------------------------------------------------------
(* afwizard.paths: the temporary workspace *)

\* The directories the user works in
UserDirs == {UserDir(1), UserDir(2), UserDir(3)}

\* get_temporary_workspace(), lines 58-62: the state after the call.  The
\* TemporaryDirectory is made when _tmp_dir is None and kept afterwards.
get_temporary_workspace(w) ==
    IF w.tmp_dir = 0
    THEN [w EXCEPT !.tmp_dir = w.created + 1, !.created = @ + 1]
    ELSE w

\* A direct call of get_temporary_workspace(), as get_temporary_filename
\* makes it
GetTemporaryWorkspace ==
    /\ ws' = get_temporary_workspace(ws)
    /\ R' = [kind |-> "value", data |-> TempDir(ws'.tmp_dir)]
    /\ UNCHANGED <<S, fresh, log, mp, mplog, last, titles, px>>

\* os.chdir(d) by the user, outside the with-blocks
Chdir(d) ==
    /\ Len(ws.blocks) = 0
    /\ ws.cwd # d
    /\ ws' = [ws EXCEPT !.cwd = d]
    /\ UNCHANGED <<S, R, fresh, log, mp, mplog, last, titles, px>>

\* with within_temporary_workspace(): lines 68-71, up to the yield.  The
\* generator keeps old_cwd until the block is left.
Enter ==
    /\ Len(ws.blocks) < MaxDepth
    /\ ws.entered < MaxBlocks
    /\ LET w == get_temporary_workspace(ws)
       IN  ws' = [w EXCEPT !.cwd = TempDir(w.tmp_dir),
                           !.blocks = Append(@, [old_cwd |-> ws.cwd]),
                           !.entered = @ + 1]
    /\ UNCHANGED <<S, R, fresh, log, mp, mplog, last, titles, px>>

\* The innermost open block and the blocks around it
Innermost == ws.blocks[Len(ws.blocks)]
Outer == SubSeq(ws.blocks, 1, Len(ws.blocks) - 1)

\* How a block was left, as the history keeps it
Left(how, cwd_after) ==
    [called |-> TRUE, how |-> how, old_cwd |-> Innermost.old_cwd,
     cwd_inside |-> ws.cwd, cwd_after |-> cwd_after]

\* The body of the innermost block completes: the generator resumes after
\* the yield and line 73 changes back to old_cwd.
ExitNormal ==
    /\ Len(ws.blocks) > 0
    /\ ws' = [ws EXCEPT !.cwd = Innermost.old_cwd,
                        !.blocks = Outer,
                        !.left = Left("returned", Innermost.old_cwd)]
    /\ UNCHANGED <<S, R, fresh, log, mp, mplog, last, titles, px>>

\* The body of the innermost block raises: contextlib throws the exception
\* into the generator at the yield of line 71, which stands in no
\* try/finally, so the generator ends there and line 73 is not run.
ExitRaise ==
    /\ Len(ws.blocks) > 0
    /\ ws' = [ws EXCEPT !.blocks = Outer,
                        !.left = Left("raised", ws.cwd)]
    /\ UNCHANGED <<S, R, fresh, log, mp, mplog, last, titles, px>>

InitWorkspace ==
    /\ S = <<>>
    /\ R = NoResult
    /\ fresh = FALSE
    /\ log = <<>>
    /\ mp = NoMap
    /\ mplog = NoCall
    /\ last = NoCall
    /\ titles = <<>>
    /\ px = NoProxy
    /\ ws = ProcessStart

NextWorkspace ==
    \/ GetTemporaryWorkspace
    \/ \E d \in UserDirs : Chdir(d)
    \/ Enter
    \/ ExitNormal
    \/ ExitRaise

SpecWorkspace == InitWorkspace /\ [][NextWorkspace]_vars

----------------------------------------------------------------------------
(* Vocabulary of the properties *)

Calls(op) == {i \in 1..Len(log) : log[i].op = op}

\* Positions of the features of feats that carry key k
Carrying(feats, k) == {i \in 1..Len(feats) : HasKey(feats[i].properties, k)}

ValueAt(feats, k, i) == GetItem(feats[i].properties, k)

DistinctValues(feats, k) == {ValueAt(feats, k, i) : i \in Carrying(feats, k)}

\* Positions at which a value of key k appears for the first time
FirstSeen(feats, k) ==
    {i \in Carrying(feats, k) :
        \A j \in Carrying(feats, k) : j < i => ValueAt(feats, k, j) # ValueAt(feats, k, i)}

\* The n-th smallest element of a set of positions
RECURSIVE Nth(_, _)
Nth(ps, n) == IF n = 1 THEN Min(ps) ELSE Nth(ps \ {Min(ps)}, n - 1)

\* A geometry as a list of polygons
PolygonsOf(g) == IF g.type = "Polygon" THEN <<g.coordinates>> ELSE g.coordinates

\* The polygons, in input order, of the features from position i on whose
\* key k has value val
RECURSIVE GroupPolygons(_, _, _, _)
GroupPolygons(feats, k, val, i) ==
    IF i > Len(feats) THEN <<>>
    ELSE (IF i \in Carrying(feats, k) /\ ValueAt(feats, k, i) = val
          THEN PolygonsOf(feats[i].geometry) ELSE <<>>)
         \o GroupPolygons(feats, k, val, i + 1)

----------------------------------------------------------------------------
(* Properties of merge_classes *)

\* C1: merge_classes(k) returns a Segmentation with exactly as many
\* features as there are distinct values of properties[k] among the features
\* that carry k; features lacking k contribute no output feature.
C1_MergeCount ==
    \A i \in Calls("merge_classes") :
        /\ log[i].ret.kind = "Segmentation"
        /\ Len(log[i].ret.features)
             = Cardinality(DistinctValues(log[i].before, log[i].keyword))

\* Two features that carry the key with the same value were merged into one.
C1_Witness ==
    \E i \in Calls("merge_classes") :
        /\ Len(log[i].before) = 2
        /\ Cardinality(Carrying(log[i].before, log[i].keyword)) = 2
        /\ Cardinality(DistinctValues(log[i].before, log[i].keyword)) = 1
        /\ Len(log[i].ret.features) = 1

\* C2: the output features appear in first-appearance order of their key
\* value, each is a MultiPolygon, and its polygon list is the concatenation,
\* in input order, of the polygons of every input feature of its group.
C2_MergeOrderAndPolygons ==
    \A i \in Calls("merge_classes") :
        LET in == log[i].before
            k == log[i].keyword
            out == log[i].ret.features
            first == FirstSeen(in, k)
        IN  /\ Len(out) = Cardinality(first)
            /\ \A j \in 1..Len(out) :
                 LET val == ValueAt(in, k, Nth(first, j)) IN
                 /\ HasKey(out[j].properties, k)
                 /\ GetItem(out[j].properties, k) = val
                 /\ out[j].geometry.type = "MultiPolygon"
                 /\ out[j].geometry.depth = 4
                 /\ out[j].geometry.coordinates = GroupPolygons(in, k, val, 1)

\* Two Polygon features of one class gave one MultiPolygon of two polygons.
C2_Witness ==
    \E i \in Calls("merge_classes") :
        /\ Len(log[i].before) = 2
        /\ \A j \in 1..2 : log[i].before[j].geometry.type = "Polygon"
        /\ Cardinality(DistinctValues(log[i].before, log[i].keyword)) = 1
        /\ Cardinality(Carrying(log[i].before, log[i].keyword)) = 2
        /\ Len(log[i].ret.features) = 1
        /\ log[i].ret.features[1].geometry.type = "MultiPolygon"
        /\ Len(log[i].ret.features[1].geometry.coordinates) = 2

\* C3: merge_classes leaves the Segmentation it is called on unchanged, so
\* that a second call on the same Segmentation returns an equal result.
C3_MergeLeavesInput ==
    /\ \A i \in Calls("merge_classes") : SameFeatures(log[i].after, log[i].before)
    /\ \A i \in Calls("merge_classes") :
         (/\ i + 1 \in Calls("merge_classes")
          /\ ~log[i + 1].onResult
          /\ log[i + 1].keyword = log[i].keyword)
         => SameFeatures(log[i + 1].ret.features, log[i].ret.features)

----------------------------------------------------------------------------
(* Properties of swap_coordinates *)

\* C4: for a Segmentation of Polygon and MultiPolygon features,
\* swap_coordinates(swap_coordinates(S)) has the coordinates S had before
\* the first call, with the same nesting depth per feature.
C4_SwapInvolution ==
    \A i \in Calls("swap_coordinates") :
        (/\ WellFormed(log[i].before)
         /\ i + 1 \in Calls("swap_coordinates")
         /\ log[i + 1].onResult)
        => /\ log[i + 1].ret.kind = "Segmentation"
           /\ Len(log[i + 1].ret.features) = Len(log[i].before)
           /\ \A j \in 1..Len(log[i].before) :
                SameGeometry(log[i + 1].ret.features[j].geometry, log[i].before[j].geometry)

\* A Polygon with a hole and a MultiPolygon were swapped twice.
C4_Witness ==
    \E i \in Calls("swap_coordinates") :
        /\ WellFormed(log[i].before)
        /\ i + 1 \in Calls("swap_coordinates")
        /\ log[i + 1].onResult
        /\ \E j \in 1..Len(log[i].before) :
             /\ log[i].before[j].geometry.type = "Polygon"
             /\ Len(log[i].before[j].geometry.coordinates) = 2
        /\ \E j \in 1..Len(log[i].before) : log[i].before[j].geometry.type = "MultiPolygon"
        /\ log[i + 1].ret.kind = "Segmentation"

\* C5: swap_coordinates does not modify its input, each output feature
\* keeps the geometry type of the input feature, and calling it twice on
\* the same input returns equal results.
C5_SwapPure ==
    /\ \A i \in Calls("swap_coordinates") :
         WellFormed(log[i].before)
         => /\ SameFeatures(log[i].after, log[i].before)
            /\ log[i].ret.kind = "Segmentation"
            /\ \A j \in 1..Len(log[i].before) :
                 log[i].ret.features[j].geometry.type = log[i].before[j].geometry.type
    /\ \A i \in Calls("swap_coordinates") :
         (/\ WellFormed(log[i].before)
          /\ i + 1 \in Calls("swap_coordinates")
          /\ ~log[i + 1].onResult)
         => /\ log[i + 1].ret.kind = "Segmentation"
            /\ SameFeatures(log[i + 1].ret.features, log[i].ret.features)

----------------------------------------------------------------------------
(* Properties of get_min_max_values *)

IsScalar(x, n) == ~IsRaised(x) /\ x.scalar /\ x.v = n

\* C9: for a non-empty Segmentation of Polygons and/or MultiPolygons,
\* get_min_max_values returns scalars that are the minimum and the maximum
\* of X and of Y over every coordinate, hence minX <= maxX and minY <= maxY.
C9_BoundingBox ==
    \A i \in Calls("get_min_max_values") :
        Len(log[i].before) > 0
        => LET pts == AllPoints(log[i].before)
               ret == log[i].ret
           IN  /\ ret.kind = "dict"
               /\ IsScalar(ret.minX, Min({p[1] : p \in pts}))
               /\ IsScalar(ret.maxX, Max({p[1] : p \in pts}))
               /\ IsScalar(ret.minY, Min({p[2] : p \in pts}))
               /\ IsScalar(ret.maxY, Max({p[2] : p \in pts}))
               /\ ret.minX.v <= ret.maxX.v
               /\ ret.minY.v <= ret.maxY.v

----------------------------------------------------------------------------
(* Properties of split_segmentation_classes *)

\* Positions of the features of feats whose key k has the value val
WithValue(feats, k, val) ==
    {i \in Carrying(feats, k) : ValueAt(feats, k, i) = val}

\* The hashable values key k takes in feats
HashableValues(feats, k) == {val \in DistinctValues(feats, k) : val.hashable}

\* Key k is in every feature and takes between 1 and 20
\* hashable values
Candidate(feats, k) ==
    /\ Carrying(feats, k) = 1..Len(feats)
    /\ Cardinality(HashableValues(feats, k)) \in 1..20

AllKeys(feats) ==
    UNION {{feats[i].properties[j].k : j \in 1..Len(feats[i].properties)} : i \in 1..Len(feats)}

ReturnedKeys(ret) == {ret.dict[j].key : j \in 1..Len(ret.dict)}

\* C6: for every key K and value V of the result, the Segmentation stored
\* at [K][V] contains exactly the features whose properties[K] equals V,
\* each exactly once.
C6_SplitGroupsExact ==
    \A c \in Calls("split_segmentation_classes") :
        log[c].ret.kind = "split_dict"
        => \A j \in 1..Len(log[c].ret.dict) :
             LET key == log[c].ret.dict[j].key
                 groups == log[c].ret.dict[j].groups
             IN  \A g \in 1..Len(groups) :
                   /\ Len(groups[g].features)
                        = Cardinality(WithValue(log[c].before, key, groups[g].value))
                   /\ \A i \in 1..Len(log[c].before) :
                        Occurrences(groups[g].features, log[c].before[i])
                          = IF i \in WithValue(log[c].before, key, groups[g].value)
                            THEN 1 ELSE 0

\* C7: no returned key has more than 20 entries, and every key present in
\* all features with between 1 and 20 distinct hashable values, exactly 20
\* included, is in the result.
C7_SplitLimit ==
    \A c \in Calls("split_segmentation_classes") :
        /\ log[c].ret.kind = "split_dict"
           => \A j \in 1..Len(log[c].ret.dict) : Len(log[c].ret.dict[j].groups) <= 20
        /\ \A k \in AllKeys(log[c].before) :
             Candidate(log[c].before, k)
             => /\ log[c].ret.kind = "split_dict"
                /\ k \in ReturnedKeys(log[c].ret)

\* A key with exactly 20 values was returned and one with 21 was not.
C7_Witness ==
    \E c \in Calls("split_segmentation_classes") :
        /\ Cardinality(HashableValues(log[c].before, "class")) = 20
        /\ Cardinality(HashableValues(log[c].before, "id")) = 21
        /\ log[c].ret.kind = "split_dict"
        /\ ReturnedKeys(log[c].ret) = {"class"}
        /\ Len(log[c].ret.dict[1].groups) = 20

\* C8: whenever no candidate key remains (the Segmentation without features
\* included) the call fails with AdaptiveFilteringError and with no other
\* failure, and it never returns an empty mapping.
C8_SplitNoKeyError ==
    \A c \in Calls("split_segmentation_classes") :
        /\ (\A k \in AllKeys(log[c].before) : ~Candidate(log[c].before, k))
           => /\ log[c].ret.kind = "error"
              /\ log[c].ret.error = "AdaptiveFilteringError"
        /\ log[c].ret.kind = "split_dict" => Len(log[c].ret.dict) > 0

----------------------------------------------------------------------------
(* Properties of the constructor of Map *)

Given(x) == x.type # "NoneType"

\* C10: constructing a Map with both a dataset and a segmentation, and with
\* neither, each fail with AdaptiveFilteringError and with no other kind of
\* failure, and no map, draw surface or overlay list is created.
C10_ExactlyOneArgument ==
    (mplog.called /\ Given(mplog.dataset) = Given(mplog.segmentation))
    => /\ mplog.raised.kind = "error"
       /\ mplog.raised.error = "AdaptiveFilteringError"
       /\ mp.state = "Uninitialized"

\* C11: constructing a Map from a Segmentation without features fails with
\* the empty-segmentation error (AdaptiveFilteringError, "an empty segmention
\* was given"), raised by the checks of the constructor and not by the
\* boundary computation.
C11_EmptySegmentationError ==
    (/\ mplog.called
     /\ ~Given(mplog.dataset)
     /\ mplog.segmentation.type = "Segmentation"
     /\ Len(mplog.segmentation.features) = 0)
    => /\ mplog.raised.kind = "error"
       /\ mplog.raised.error = "AdaptiveFilteringError"
       /\ mplog.raised.message = "empty"

\* C12: a Segmentation passed as the dataset, and a DataSet passed as the
\* segmentation (the other argument left out), each fail with the
\* type-mismatch AdaptiveFilteringError; no other check fails first and no
\* Map is set up.
C12_EagerTypeCheck ==
    (/\ mplog.called
     /\ \/ mplog.dataset.type = "Segmentation" /\ ~Given(mplog.segmentation)
        \/ mplog.segmentation.type = "DataSet" /\ ~Given(mplog.dataset))
    => /\ mplog.raised.kind = "error"
       /\ mplog.raised.error = "AdaptiveFilteringError"
       /\ mplog.raised.message \in {"segmentation as dataset", "dataset as segmentation"}
       /\ mp.state = "Uninitialized"

----------------------------------------------------------------------------
(* Properties of the Map after construction *)

\* The bounds of an image laid over the box with the given edges
BoundsOf(edges) ==
    << <<edges.maxY.v, edges.maxX.v>>, <<edges.minY.v, edges.minX.v>> >>

\* The layers of the Map that are image overlays, by position
OverlayLayers == {l \in 1..Len(mp.layers) : mp.layers[l].kind = "ImageOverlay"}

\* C13: boundary_edges is the extent of the boundary Segmentation, computed
\* at construction, and no later call changes it; every overlay lies at
\* exactly these bounds, whatever has been drawn or imported since.
C13_BoundaryEdgesFixed ==
    mp.state = "Ready"
    => /\ mp.boundary_edges = mplog.edges
       /\ LET pts == AllPoints(mp.layers[1].data)
          IN  /\ mp.boundary_edges.minX = Num(Min({p[1] : p \in pts}))
              /\ mp.boundary_edges.maxX = Num(Max({p[1] : p \in pts}))
              /\ mp.boundary_edges.minY = Num(Min({p[2] : p \in pts}))
              /\ mp.boundary_edges.maxY = Num(Max({p[2] : p \in pts}))
       /\ \A l \in OverlayLayers : mp.layers[l].bounds = BoundsOf(mplog.edges)

\* An overlay was loaded onto a draw surface whose features reach beyond
\* the boundary
C13_Witness ==
    /\ mp.state = "Ready"
    /\ last.called /\ last.op = "load_overlay"
    /\ Len(last.before.draw_data) > 0
    /\ Max({p[1] : p \in AllPoints(mp.draw_data)}) > mp.boundary_edges.maxX.v
    /\ OverlayLayers # {}

\* No two features of feats have the same geometry
DistinctGeometries(feats) ==
    \A i, j \in 1..Len(feats) :
        i # j => ~SameGeometry(feats[i].geometry, feats[j].geometry)

\* The union on geometry equality: drawn, followed in input order by the
\* first feature of each geometry that drawn does not hold yet
RECURSIVE UnionOnGeometry(_, _, _)
UnionOnGeometry(drawn, feats, i) ==
    IF i > Len(feats) THEN drawn
    ELSE IF \E d \in 1..Len(drawn) : SameGeometry(feats[i].geometry, drawn[d].geometry)
         THEN UnionOnGeometry(drawn, feats, i + 1)
         ELSE UnionOnGeometry(Append(drawn, feats[i]), feats, i + 1)

\* C14: load_segmentation(S, override=False) on a draw surface of pairwise
\* distinct geometries leaves the previous features in their order, followed
\* in input order by exactly one feature for each geometry of S that was not
\* drawn, so that no geometry appears twice.
C14_UnionOnGeometry ==
    (/\ last.called /\ last.op = "load_segmentation" /\ ~last.override
     /\ DistinctGeometries(last.before.draw_data))
    => /\ SameFeatures(mp.draw_data, UnionOnGeometry(last.before.draw_data, last.feats, 1))
       /\ DistinctGeometries(mp.draw_data)

\* C15: load_segmentation(S, override=True) replaces the drawn features by
\* those of S whatever was drawn; return_segmentation returns the drawn
\* features in their order (those of S right after such a call) and changes
\* neither the draw surface, the overlay list nor boundary_edges.
C15_OverrideThenReturn ==
    /\ (last.called /\ last.op = "load_segmentation" /\ last.override)
       => SameFeatures(mp.draw_data, last.feats)
    /\ (last.called /\ last.op = "return_segmentation")
       => /\ R.kind = "Segmentation"
          /\ SameFeatures(R.features, mp.draw_data)
          /\ SameFeatures(mp.draw_data, last.before.draw_data)
          /\ mp.overlay_list = last.before.overlay_list
          /\ mp.boundary_edges = last.before.boundary_edges
          /\ (last.prev.op = "load_segmentation" /\ last.prev.override)
             => SameFeatures(R.features, last.prev.feats)

\* return_segmentation was called right after load_segmentation(S, True)
\* replaced a non-empty draw surface on a Map that has an overlay
C15_Witness ==
    /\ last.called /\ last.op = "return_segmentation"
    /\ last.prev.op = "load_segmentation" /\ last.prev.override
    /\ Len(last.prev.feats) = 1
    /\ R.kind = "Segmentation" /\ Len(R.features) = 1
    /\ Len(mp.overlay_list) > 0

\* The names of the image overlays among layers[i..], in layer order
RECURSIVE OverlayNames(_, _)
OverlayNames(layers, i) ==
    IF i > Len(layers) THEN <<>>
    ELSE (IF layers[i].kind = "ImageOverlay" THEN <<layers[i].name>> ELSE <<>>)
         \o OverlayNames(layers, i + 1)

\* C16: the overlay list is the sequence of the titles passed to
\* load_overlay, in call order and with repeated titles kept; each
\* load_overlay adds one entry and one layer, and no other call touches the
\* list.
C16_OverlayListAppendOnly ==
    mp.state = "Ready"
    => /\ mp.overlay_list = titles
       /\ OverlayNames(mp.layers, 1) = titles
       /\ last.called
          => IF last.op = "load_overlay"
             THEN /\ mp.overlay_list = Append(last.before.overlay_list, last.title)
                  /\ Len(mp.layers) = Len(last.before.layers) + 1
             ELSE mp.overlay_list = last.before.overlay_list

\* The same title was loaded twice
C16_Witness ==
    /\ mp.state = "Ready"
    /\ last.called /\ last.op = "load_overlay"
    /\ Len(titles) = 2 /\ titles[1] = titles[2]
    /\ Len(mp.overlay_list) = 2

\* C17: load_geojson(S, name) adds one display layer per feature of S, with
\* the default style where the feature has none and the feature's own style
\* where it has one; S itself and the drawn features stay as they were.
C17_LoadGeojsonFrame ==
    (last.called /\ last.op = "load_geojson")
    => /\ Len(mp.layers) = Len(last.before.layers) + Len(last.feats)
       /\ \A i \in 1..Len(last.feats) :
            LET layer == mp.layers[Len(last.before.layers) + i]
                shown == layer.data[1]
                given == last.feats[i]
            IN  /\ layer.kind = "GeoJSON"
                /\ layer.name = last.title
                /\ Len(layer.data) = 1
                /\ SameGeometry(shown.geometry, given.geometry)
                /\ HasKey(shown.properties, "style")
                /\ GetItem(shown.properties, "style") =
                      IF HasKey(given.properties, "style")
                      THEN GetItem(given.properties, "style")
                      ELSE DefaultStyle
                /\ \A k \in 1..Len(given.properties) :
                      GetItem(shown.properties, given.properties[k].k) = given.properties[k].v
       /\ SameFeatures(last.after, last.feats)
       /\ SameFeatures(mp.draw_data, last.before.draw_data)

\* A Segmentation of one styled and one unstyled feature was loaded as
\* layers of a Map that has drawn features
C17_Witness ==
    /\ last.called /\ last.op = "load_geojson"
    /\ Len(last.feats) = 2
    /\ HasKey(last.feats[1].properties, "style")
    /\ ~HasKey(last.feats[2].properties, "style")
    /\ Len(mp.draw_data) > 0
    /\ Len(mp.layers) = 3

----------------------------------------------------------------------------
(* Properties of InteractiveWidgetOutputProxy *)

\* C18: while the proxy is not finalized every attribute access invokes the
\* creator and is forwarded to the object just created; once _finalize has
\* been called, no attribute access and no further _finalize invokes the
\* creator or replaces the object, and every read sees the object of the
\* first finalization.
C18_LiveThenFrozen ==
    px.state = "Constructed"
    => /\ (px.last.called /\ px.last.op = "__getattr__" /\ ~px.last.finalized
           /\ px.last.result.kind = "value")
          => /\ px.made = px.last.made + 1
             /\ px.obj.id = px.made
             /\ px.last.result.data = px.last.form
       /\ px.finalizations > 0
          => /\ px.finalized
             /\ px.obj = px.first
             /\ px.made = px.made_at_first
             /\ (px.last.called /\ px.last.op = "__getattr__" /\ px.last.finalized)
                => /\ px.last.result.kind = "value"
                   /\ px.last.result.data = px.first.data

----------------------------------------------------------------------------
(* Properties of the temporary workspace *)

\* C19: when a within_temporary_workspace block has been left, by the end
\* of its body or by an exception, the working directory is the one at
\* entry; inside a block it is the temporary workspace, which is created by
\* the first use and is the same directory for every use.
C19_WorkingDirectoryRestored ==
    /\ ws.left.called
       => /\ ws.left.cwd_after = ws.left.old_cwd
          /\ ws.left.cwd_inside = TempDir(1)
    /\ Len(ws.blocks) > 0 => ws.cwd = TempDir(ws.tmp_dir)
    /\ ws.created = (IF ws.tmp_dir = 0 THEN 0 ELSE 1)
    /\ ws.entered > 0 => ws.tmp_dir = 1

====
